---- MODULE Spec2Model ----
(***************************************************************************)
(* Model of openid/server/impl.py: OpenIDServerImpl, the provider side of  *)
(* OpenID 1.x.  processGet answers authentication requests, processPost    *)
(* answers the back-channel requests associate and check_authentication.   *)
(*                                                                         *)
(* Encoding of Python values.  A str is a sequence of string tokens: ""    *)
(* is <<>>, "alice" is <<"alice">>, and a formatted or encoded string is   *)
(* the concatenation of its parts, so that all values compare.  A dict is  *)
(* a function whose DOMAIN is its key set; d.get(k) is None exactly when   *)
(* k is not in DOMAIN d.  An association is a record [handle, secret,      *)
(* expiresIn]; None in the place of an association is NoAssoc.             *)
(***************************************************************************)
EXTENDS Integers, Sequences, FiniteSets, TLC

VARIABLES
    istore,   \* self.istore: the internal association store
    estore,   \* self.estore: the external association store
    phase,    \* "idle": no call pending; "returned": `last` was just returned
    last,     \* the call just answered: operation, inputs, outcome, stores before
    pc,       \* per worker: position inside a concurrently running _checkAuth
    targs,    \* per worker: the request being served
    tassoc,   \* per worker: the association read at line 149
    tret      \* per worker: the outcome returned

vars == <<istore, estore, phase, last, pc, targs, tassoc, tret>>

-----------------------------------------------------------------------------
(* Bounds of the model *)

MaxHandles == 2     \* associations each store issues in one behaviour
MaxLife == 1        \* lifetime, in ticks, of a freshly issued association

-----------------------------------------------------------------------------
(* Python values *)

EmptyDict == [k \in {} |-> <<>>]

Has(d, k) == k \in DOMAIN d

\* '%s' % x for x = d.get(k): the string, or 'None'
Fmt(d, k) == IF Has(d, k) THEN d[k] ELSE <<"None">>

\* '%r' % x for x = d.get(k): the quoted string, or None
Repr(d, k) == IF Has(d, k) THEN <<"'">> \o d[k] \o <<"'">> ELSE <<"None">>

\* str(n) for the small integers of the model
Digits == <<"0", "1", "2", "3", "4", "5", "6", "7", "8", "9", "10", "11", "12", "13", "14", "15">>

Str(n) == <<Digits[n + 1]>>

\* dict(d) followed by d[k] = v
DictSet(d, k, v) == [x \in DOMAIN d \cup {k} |-> IF x = k THEN v ELSE d[x]]

\* d.update(e)
DictUpdate(d, e) == e @@ d

-----------------------------------------------------------------------------
(* The interface module's outcome codes and the helpers of oidutil *)

NoUrl == [base |-> <<>>, query |-> EmptyDict]

\* oidutil.appendArgs(url, args): the url with the arguments as its query
appendArgs(url, args) == [base |-> url, query |-> args]

\* oidutil.dictToKV(d): one line "key:value\n" per item of d
dictToKV(d) == {<<k, ":">> \o d[k] \o <<"\n">> : k \in DOMAIN d}

\* oidutil.toBase64(s)
toBase64(s) == <<"b64(">> \o s \o <<")">>

Outcome(kind, url, cancel, body, msg) ==
    [kind |-> kind, url |-> url, cancel |-> cancel, body |-> body, msg |-> msg]

REDIRECT(url) == Outcome("REDIRECT", url, NoUrl, {}, <<>>)

DO_AUTH(ret, can) == Outcome("DO_AUTH", ret, can, {}, <<>>)

OK(body) == Outcome("OK", NoUrl, NoUrl, body, <<>>)

ERROR(body, msg) == Outcome("ERROR", NoUrl, NoUrl, body, msg)

\* an exception that leaves the handler: no outcome is returned
RAISED(exc) == Outcome("EXCEPTION", NoUrl, NoUrl, {}, exc)

-----------------------------------------------------------------------------
(* Associations and the two stores *)

HandleNames == <<"h1", "h2", "h3", "h4", "h5", "h6">>

\* the handle string of the n-th association a store issues
HandleOf(n) == <<HandleNames[n]>>

NoAssoc == [handle |-> <<"None">>, secret |-> 0, expiresIn |-> 0]

EmptyStore(tag) == [tag |-> tag, next |-> 0, assocs |-> [h \in {} |-> NoAssoc]]

\* the key material of the n-th association of a store: fresh for every
\* association of either store
SecretOf(tag, n) == IF tag = "internal" THEN 2 * n - 1 ELSE 2 * n

\* store.get(assoc_type): the association issued, None for an unsupported type
StoreGetAssoc(store, assoc_type) ==
    IF assoc_type = <<"HMAC-SHA1">>
    THEN [handle |-> HandleOf(store.next + 1),
          secret |-> SecretOf(store.tag, store.next + 1),
          expiresIn |-> MaxLife]
    ELSE NoAssoc

\* store.get(assoc_type): the store afterwards
StoreGet(store, assoc_type) ==
    LET a == StoreGetAssoc(store, assoc_type) IN
    IF a = NoAssoc THEN store
    ELSE [store EXCEPT !.next = @ + 1, !.assocs = (a.handle :> a) @@ @]

\* store.lookup(handle, assoc_type)
StoreLookup(store, handle, assoc_type) ==
    IF assoc_type = <<"HMAC-SHA1">> /\ handle \in DOMAIN store.assocs
    THEN store.assocs[handle]
    ELSE NoAssoc

\* store.remove(handle): no error when the handle is absent
StoreRemove(store, handle) ==
    [store EXCEPT !.assocs = [h \in DOMAIN @ \ {handle} |-> @[h]]]

\* one second passes: every live association has one second less to live
StoreAge(store) ==
    [store EXCEPT !.assocs =
        [h \in DOMAIN @ |-> [@[h] EXCEPT !.expiresIn = IF @ > 0 THEN @ - 1 ELSE @]]]

-----------------------------------------------------------------------------
(* TrustRoot *)

NoTrustRoot == <<"None">>

\* TrustRoot.parse(trust_root): the parsed root, None when it does not parse
TrustRootParse(args) ==
    IF Has(args, "openid.trust_root") /\ args["openid.trust_root"] = <<"http://rp/">>
    THEN args["openid.trust_root"]
    ELSE NoTrustRoot

\* tr.validateURL(url): the url lies under the root
validateURL(tr, url) == Len(url) >= 1 /\ url[1] = tr[1]

-----------------------------------------------------------------------------
(* cryptutil.signReply *)

\* 'openid.' + name, for the field names a signed list can hold
Prefixed(name) ==
    CASE name = "mode" -> "openid.mode"
      [] name = "identity" -> "openid.identity"
      [] name = "return_to" -> "openid.return_to"
      [] name = "assoc_handle" -> "openid.assoc_handle"
      [] OTHER -> "openid.unknown"

\* ','.join(fields)
RECURSIVE Join(_)
Join(fields) ==
    IF fields = <<>> THEN <<>>
    ELSE IF Len(fields) = 1 THEN <<Head(fields)>>
    ELSE <<Head(fields), ",">> \o Join(Tail(fields))

\* s.strip().split(','): the names between the commas
Split(s) == SelectSeq(s, LAMBDA t : t # ",")

\* the text signed: one line "name:value\n" per signed field, in order
RECURSIVE SignedText(_, _)
SignedText(reply, fields) ==
    IF fields = <<>> THEN <<>>
    ELSE <<Head(fields), ":">> \o reply[Prefixed(Head(fields))] \o <<"\n">>
            \o SignedText(reply, Tail(fields))

\* the keyed digest of a text, base64-encoded
Hmac(secret, text) == toBase64(<<"hmac-sha1", "key">> \o Str(secret) \o text)

\* the positions of the signed fields that reply lacks; signReply raises
\* KeyError at the first of them
MissingSigned(reply, fields) ==
    {i \in 1..Len(fields) : ~Has(reply, Prefixed(fields[i]))}

\* cryptutil.signReply(reply, secret, signed_fields) -> (signed, sig)
signReply(reply, secret, fields) ==
    [signed |-> Join(fields), sig |-> Hmac(secret, SignedText(reply, fields))]

-----------------------------------------------------------------------------
(* OpenIDServerImpl *)

\* self.url
ServerUrl == <<"http://op/", "server">>

\* a signed list that leaves return_to out
_signed_fields_short == <<"mode", "identity">>

_signed_fields == <<"mode", "identity", "return_to">>

HMAC_SHA1 == <<"HMAC-SHA1">>

\* the result of a handler: what it returns, the exception it raises (<<>>
\* when it returns) and the stores it leaves
Result(ret, ist, est) == [ret |-> ret, exc |-> <<>>, istore |-> ist, estore |-> est]

Raise(exc, ist, est) == [ret |-> RAISED(exc), exc |-> exc, istore |-> ist, estore |-> est]

\* d[k] for a key d lacks
KeyError(k) == <<"KeyError", k>>

\* lines 181-190 never redirecting: the error always goes to the caller
_getErrRaw(args, msg) == ERROR({}, msg)

\* lines 181-190: the error goes to return_to when the request names one
_getErr(args, msg) ==
    IF Has(args, "openid.return_to") /\ args["openid.return_to"] # <<>>
    THEN REDIRECT(appendArgs(args["openid.return_to"],
                     ("openid.mode" :> <<"error">>) @@ ("openid.error" :> msg)))
    ELSE ERROR({}, msg)

_postErr(msg) == ERROR(dictToKV("error" :> msg), <<>>)

\* line 64: if assoc_handle
HandleGiven(args) ==
    Has(args, "openid.assoc_handle") /\ args["openid.assoc_handle"] # <<>>

\* line 69 testing for a missing association only
StaleWhenAbsent(assoc) == assoc = NoAssoc

\* line 69: the association the consumer named cannot be used
Stale(assoc) == assoc = NoAssoc \/ assoc.expiresIn <= 0

\* lines 64-75 looking the handle up in the internal store
ResolveAssocInternal(args, ist, est) ==
    LET found == IF HandleGiven(args)
                 THEN StoreLookup(ist, args["openid.assoc_handle"], HMAC_SHA1)
                 ELSE NoAssoc
        fallback == HandleGiven(args) /\ Stale(found)
        fresh == ~HandleGiven(args) \/ fallback
    IN [assoc |-> IF fresh THEN StoreGetAssoc(ist, HMAC_SHA1) ELSE found,
        istore |-> IF fresh THEN StoreGet(ist, HMAC_SHA1) ELSE ist,
        estore |-> IF fallback /\ found # NoAssoc /\ found.expiresIn <= 0
                   THEN StoreRemove(est, found.handle) ELSE est,
        invalidate |-> fallback]

\* lines 64-75 asking the external store for the fresh association
ResolveAssocExternal(args, ist, est) ==
    LET found == IF HandleGiven(args)
                 THEN StoreLookup(est, args["openid.assoc_handle"], HMAC_SHA1)
                 ELSE NoAssoc
        fallback == HandleGiven(args) /\ Stale(found)
        fresh == ~HandleGiven(args) \/ fallback
        est1 == IF fallback /\ found # NoAssoc /\ found.expiresIn <= 0
                THEN StoreRemove(est, found.handle) ELSE est
    IN [assoc |-> IF fresh THEN StoreGetAssoc(est1, HMAC_SHA1) ELSE found,
        istore |-> ist,
        estore |-> IF fresh THEN StoreGet(est1, HMAC_SHA1) ELSE est1,
        invalidate |-> fallback]

\* lines 64-75: the association that signs the reply, the stores afterwards
\* and whether the consumer's handle is invalidated
ResolveAssoc(args, ist, est) ==
    LET found == IF HandleGiven(args)
                 THEN StoreLookup(est, args["openid.assoc_handle"], HMAC_SHA1)
                 ELSE NoAssoc
        fallback == HandleGiven(args) /\ Stale(found)
        fresh == ~HandleGiven(args) \/ fallback
    IN [assoc |-> IF fresh THEN StoreGetAssoc(ist, HMAC_SHA1) ELSE found,
        istore |-> IF fresh THEN StoreGet(ist, HMAC_SHA1) ELSE ist,
        estore |-> IF fallback /\ found # NoAssoc /\ found.expiresIn <= 0
                   THEN StoreRemove(est, found.handle) ELSE est,
        invalidate |-> fallback]

\* lines 58-88: the signed id_res reply of an authorized, validated request
SignedReply(args, assoc, invalidate) ==
    LET reply0 == ("openid.mode" :> <<"id_res">>)
                    @@ ("openid.return_to" :> args["openid.return_to"])
                    @@ ("openid.identity" :> args["openid.identity"])
        reply1 == IF invalidate
                  THEN DictSet(reply0, "openid.invalidate_handle", args["openid.assoc_handle"])
                  ELSE reply0
        reply2 == DictUpdate(reply1, "openid.assoc_handle" :> assoc.handle)
        s == signReply(reply2, assoc.secret, _signed_fields)
    IN DictUpdate(reply2, ("openid.signed" :> s.signed) @@ ("openid.sig" :> s.sig))

\* lines 42-56 without line 45: the redirect repeats checkid_immediate
UnauthorizedSameMode(args) ==
    IF Has(args, "openid.mode") /\ args["openid.mode"] = <<"checkid_immediate">>
    THEN REDIRECT(appendArgs(ServerUrl, args))
    ELSE IF Has(args, "openid.mode") /\ args["openid.mode"] = <<"checkid_setup">>
    THEN DO_AUTH(appendArgs(ServerUrl, args),
                 appendArgs(args["openid.return_to"], "openid.mode" :> <<"cancel">>))
    ELSE _getErr(args, <<"open.mode (">> \o Repr(args, "openid.mode") \o <<") not understood">>)

\* lines 42-56: the answer to a validated request that is not authorized
Unauthorized(args) ==
    IF Has(args, "openid.mode") /\ args["openid.mode"] = <<"checkid_immediate">>
    THEN REDIRECT(appendArgs(ServerUrl, DictSet(args, "openid.mode", <<"checkid_setup">>)))
    ELSE IF Has(args, "openid.mode") /\ args["openid.mode"] = <<"checkid_setup">>
    THEN DO_AUTH(appendArgs(ServerUrl, args),
                 appendArgs(args["openid.return_to"], "openid.mode" :> <<"cancel">>))
    ELSE _getErr(args, <<"open.mode (">> \o Repr(args, "openid.mode") \o <<") not understood">>)

\* lines 20-88 with the test of line 42 reading the mode alone: a request
\* that is not authorized and names no known mode goes on to the reply
processGetByMode(authorized, args, ist, est) ==
    LET tr == TrustRootParse(args)
        known == Has(args, "openid.mode")
                   /\ args["openid.mode"] \in {<<"checkid_immediate">>, <<"checkid_setup">>}
    IN
    IF ~Has(args, "openid.identity")
    THEN Result(_getErr(args, <<"No identity specified">>), ist, est)
    ELSE IF tr = NoTrustRoot
    THEN Result(_getErr(args, <<"Malformed trust_root: ">> \o Fmt(args, "openid.trust_root")),
                ist, est)
    ELSE IF ~Has(args, "openid.return_to")
    THEN Result(_getErr(args, <<"No return_to URL specified">>), ist, est)
    ELSE IF ~validateURL(tr, args["openid.return_to"])
    THEN Result(_getErr(args, <<"return_to(">> \o args["openid.return_to"]
                                \o <<") not valid against trust_root(">>
                                \o args["openid.trust_root"] \o <<")">>), ist, est)
    ELSE IF ~authorized /\ known
    THEN Result(Unauthorized(args), ist, est)
    ELSE LET r == ResolveAssoc(args, ist, est) IN
         Result(REDIRECT(appendArgs(args["openid.return_to"],
                                    SignedReply(args, r.assoc, r.invalidate))),
                r.istore, r.estore)

\* lines 20-88
processGet(authorized, args, ist, est) ==
    LET tr == TrustRootParse(args) IN
    IF ~Has(args, "openid.identity")
    THEN Result(_getErr(args, <<"No identity specified">>), ist, est)
    ELSE IF tr = NoTrustRoot
    THEN Result(_getErr(args, <<"Malformed trust_root: ">> \o Fmt(args, "openid.trust_root")),
                ist, est)
    ELSE IF ~Has(args, "openid.return_to")
    THEN Result(_getErr(args, <<"No return_to URL specified">>), ist, est)
    ELSE IF ~validateURL(tr, args["openid.return_to"])
    THEN Result(_getErr(args, <<"return_to(">> \o args["openid.return_to"]
                                \o <<") not valid against trust_root(">>
                                \o args["openid.trust_root"] \o <<")">>), ist, est)
    ELSE IF ~authorized
    THEN Result(Unauthorized(args), ist, est)
    ELSE LET r == ResolveAssoc(args, ist, est) IN
         Result(REDIRECT(appendArgs(args["openid.return_to"],
                                    SignedReply(args, r.assoc, r.invalidate))),
                r.istore, r.estore)

-----------------------------------------------------------------------------
(* cryptutil and DiffieHellman, as _associate uses them *)

\* cryptutil.longToBase64(n)
longToBase64(n) == toBase64(<<"long">> \o Str(n))

\* cryptutil.base64ToLong(s)
base64ToLong(s) == CHOOSE n \in 0..(Len(Digits) - 1) : longToBase64(n) = s

\* pow(b, e, m)
RECURSIVE PowMod(_, _, _)
PowMod(b, e, m) == IF e = 0 THEN 1 % m ELSE (b * PowMod(b, e - 1, m)) % m

\* dh.decryptKeyExchange(cpub) of DiffieHellman(p, g) with private key x
decryptKeyExchange(p, x, cpub) == PowMod(cpub, x, p)

\* dh.createKeyExchange() of DiffieHellman(p, g) with private key x
createKeyExchange(p, g, x) == PowMod(g, x, p)

\* cryptutil.sha1(cryptutil.longToBinary(n)), on the key width of the model
sha1(n) == (5 * n + 3) % 8

\* cryptutil.strxor(a, b), bit by bit
RECURSIVE strxor(_, _)
strxor(a, b) ==
    IF a = 0 /\ b = 0 THEN 0
    ELSE (((a % 2) + (b % 2)) % 2) + 2 * strxor(a \div 2, b \div 2)

-----------------------------------------------------------------------------
(* processPost and its two branches *)

\* lines 121-138 masking the secret with the hash of the server's public value
SessionFieldsHashPublic(args, assoc, x) ==
    LET p == base64ToLong(args["openid.dh_modulus"])
        g == base64ToLong(args["openid.dh_gen"])
        spub == createKeyExchange(p, g, x)
        mac_key == strxor(assoc.secret, sha1(spub))
    IN ("session_type" :> args["openid.session_type"])
         @@ ("dh_server_public" :> longToBase64(spub))
         @@ ("enc_mac_key" :> toBase64(Str(mac_key)))

\* lines 121-138: the reply fields of a DH-SHA1 session, x the private key
\* DiffieHellman.fromBase64 draws
SessionFields(args, assoc, x) ==
    LET p == base64ToLong(args["openid.dh_modulus"])
        g == base64ToLong(args["openid.dh_gen"])
        cpub == base64ToLong(args["openid.dh_consumer_public"])
        dh_shared == decryptKeyExchange(p, x, cpub)
        mac_key == strxor(assoc.secret, sha1(dh_shared))
        spub == createKeyExchange(p, g, x)
    IN ("session_type" :> args["openid.session_type"])
         @@ ("dh_server_public" :> longToBase64(spub))
         @@ ("enc_mac_key" :> toBase64(Str(mac_key)))

\* line 144: print (reply, mac_key); mac_key is bound only in the DH-SHA1
\* branch, so the statement raises when no session was asked for
PrintRaises(sessionGiven) == ~sessionGiven

\* lines 103-146 with the session checks made before line 106 asks the store
\* for an association: a request that ends in an error issues none
_associateChecksFirst(args, ist, est, x) ==
    LET assoc_type == IF Has(args, "openid.assoc_type")
                      THEN args["openid.assoc_type"] ELSE HMAC_SHA1
        assoc == StoreGetAssoc(est, assoc_type)
        est1 == StoreGet(est, assoc_type)
        reply == ("assoc_type" :> HMAC_SHA1)
                   @@ ("assoc_handle" :> assoc.handle)
                   @@ ("expires_in" :> Str(assoc.expiresIn))
        sessionGiven == Has(args, "openid.session_type")
                          /\ args["openid.session_type"] # <<>>
    IN
    IF assoc = NoAssoc
    THEN Result(_postErr(<<"unable to create an association for type ">>
                            \o Repr(args, "openid.assoc_type")), ist, est)
    ELSE IF sessionGiven /\ args["openid.session_type"] # <<"DH-SHA1">>
    THEN Result(_postErr(<<"session_type must be DH-SHA1">>), ist, est)
    ELSE IF sessionGiven /\ ~Has(args, "openid.dh_modulus")
    THEN Raise(KeyError("openid.dh_modulus"), ist, est)
    ELSE IF sessionGiven /\ ~Has(args, "openid.dh_gen")
    THEN Raise(KeyError("openid.dh_gen"), ist, est)
    ELSE IF sessionGiven /\ ~Has(args, "openid.dh_consumer_public")
    THEN Raise(KeyError("openid.dh_consumer_public"), ist, est)
    ELSE IF PrintRaises(sessionGiven)
    THEN Raise(<<"UnboundLocalError", "mac_key">>, ist, est1)
    ELSE Result(OK(dictToKV(DictUpdate(reply, SessionFields(args, assoc, x)))), ist, est1)

\* lines 103-146
_associate(args, ist, est, x) ==
    LET assoc_type == IF Has(args, "openid.assoc_type")
                      THEN args["openid.assoc_type"] ELSE HMAC_SHA1
        assoc == StoreGetAssoc(est, assoc_type)
        est1 == StoreGet(est, assoc_type)
        reply == ("assoc_type" :> HMAC_SHA1)
                   @@ ("assoc_handle" :> assoc.handle)
                   @@ ("expires_in" :> Str(assoc.expiresIn))
        sessionGiven == Has(args, "openid.session_type")
                          /\ args["openid.session_type"] # <<>>
    IN
    IF assoc = NoAssoc
    THEN Result(_postErr(<<"unable to create an association for type ">>
                            \o Repr(args, "openid.assoc_type")), ist, est1)
    ELSE IF sessionGiven /\ args["openid.session_type"] # <<"DH-SHA1">>
    THEN Result(_postErr(<<"session_type must be DH-SHA1">>), ist, est1)
    ELSE IF sessionGiven /\ ~Has(args, "openid.dh_modulus")
    THEN Raise(KeyError("openid.dh_modulus"), ist, est1)
    ELSE IF sessionGiven /\ ~Has(args, "openid.dh_gen")
    THEN Raise(KeyError("openid.dh_gen"), ist, est1)
    ELSE IF sessionGiven /\ ~Has(args, "openid.dh_consumer_public")
    THEN Raise(KeyError("openid.dh_consumer_public"), ist, est1)
    ELSE IF PrintRaises(sessionGiven)
    THEN Raise(<<"UnboundLocalError", "mac_key">>, ist, est1)
    ELSE Result(OK(dictToKV(DictUpdate(reply, SessionFields(args, assoc, x)))), ist, est1)

\* lines 156-176 with line 163 testing v_sig for truth, not for equality
CheckVerdictUnchecked(args, assoc) ==
    LET dat == DictSet(args, "openid.mode", <<"id_res">>)
        fields == Split(args["openid.signed"])
        missing == MissingSigned(dat, fields)
        first == CHOOSE i \in missing : \A j \in missing : i <= j
    IN
    IF ~(assoc.expiresIn > 0) THEN [exc |-> <<>>, verdict |-> "expired"]
    ELSE IF ~Has(args, "openid.signed")
    THEN [exc |-> KeyError("openid.signed"), verdict |-> "raise"]
    ELSE IF missing # {}
    THEN [exc |-> KeyError(Prefixed(fields[first])), verdict |-> "raise"]
    ELSE IF ~Has(args, "openid.sig")
    THEN [exc |-> KeyError("openid.sig"), verdict |-> "raise"]
    ELSE IF signReply(dat, assoc.secret, fields).sig # <<>>
    THEN [exc |-> <<>>, verdict |-> "match"]
    ELSE [exc |-> <<>>, verdict |-> "mismatch"]

\* lines 156-176 recomputing the signature over _signed_fields, whatever list
\* the request names
CheckVerdictFixedList(args, assoc) ==
    LET dat == DictSet(args, "openid.mode", <<"id_res">>)
        missing == MissingSigned(dat, _signed_fields)
        first == CHOOSE i \in missing : \A j \in missing : i <= j
    IN
    IF ~(assoc.expiresIn > 0) THEN [exc |-> <<>>, verdict |-> "expired"]
    ELSE IF ~Has(args, "openid.signed")
    THEN [exc |-> KeyError("openid.signed"), verdict |-> "raise"]
    ELSE IF missing # {}
    THEN [exc |-> KeyError(Prefixed(_signed_fields[first])), verdict |-> "raise"]
    ELSE IF ~Has(args, "openid.sig")
    THEN [exc |-> KeyError("openid.sig"), verdict |-> "raise"]
    ELSE IF signReply(dat, assoc.secret, _signed_fields).sig = args["openid.sig"]
    THEN [exc |-> <<>>, verdict |-> "match"]
    ELSE [exc |-> <<>>, verdict |-> "mismatch"]

\* lines 156-176 decide among: "expired", "match", "mismatch", or a KeyError
\* (exc) for a field the request lacks
CheckVerdict(args, assoc) ==
    LET dat == DictSet(args, "openid.mode", <<"id_res">>)
        fields == Split(args["openid.signed"])
        missing == MissingSigned(dat, fields)
        first == CHOOSE i \in missing : \A j \in missing : i <= j
    IN
    IF ~(assoc.expiresIn > 0) THEN [exc |-> <<>>, verdict |-> "expired"]
    ELSE IF ~Has(args, "openid.signed")
    THEN [exc |-> KeyError("openid.signed"), verdict |-> "raise"]
    ELSE IF missing # {}
    THEN [exc |-> KeyError(Prefixed(fields[first])), verdict |-> "raise"]
    ELSE IF ~Has(args, "openid.sig")
    THEN [exc |-> KeyError("openid.sig"), verdict |-> "raise"]
    ELSE IF signReply(dat, assoc.secret, fields).sig = args["openid.sig"]
    THEN [exc |-> <<>>, verdict |-> "match"]
    ELSE [exc |-> <<>>, verdict |-> "mismatch"]

\* line 164: the store call made when the signature matches
ConsumeOnMatch(ist, est, handle) ==
    [istore |-> ist, estore |-> StoreRemove(est, handle)]

\* line 175 calling the external store
RemoveExpiredExternal(ist, est, handle) ==
    [istore |-> ist, estore |-> StoreRemove(est, handle)]

\* line 175: the store call made when the association has expired
RemoveExpired(ist, est, handle) ==
    [istore |-> StoreRemove(ist, handle), estore |-> est]

\* lines 156-176 consuming the association on a mismatch too
CheckStoresEager(verdict, args, ist, est) ==
    IF verdict = "expired" \/ verdict = "mismatch"
    THEN RemoveExpired(ist, est, args["openid.assoc_handle"])
    ELSE IF verdict = "match"
    THEN ConsumeOnMatch(ist, est, args["openid.assoc_handle"])
    ELSE [istore |-> ist, estore |-> est]

\* lines 156-176: the stores after the verdict
CheckStores(verdict, args, ist, est) ==
    IF verdict = "match" THEN ConsumeOnMatch(ist, est, args["openid.assoc_handle"])
    ELSE IF verdict = "expired" THEN RemoveExpired(ist, est, args["openid.assoc_handle"])
    ELSE [istore |-> ist, estore |-> est]

\* lines 155, 165-179: the reply of a request that raised nothing
CheckReply(verdict, args, est) ==
    LET echo == /\ verdict = "match"
                /\ Has(args, "openid.invalidate_handle")
                /\ args["openid.invalidate_handle"] # <<>>
                /\ StoreLookup(est, args["openid.invalidate_handle"], HMAC_SHA1) = NoAssoc
        reply == IF echo THEN "invalidate_handle" :> args["openid.invalidate_handle"]
                 ELSE EmptyDict
    IN OK(dictToKV(DictSet(reply, "is_valid",
                           IF verdict = "match" THEN <<"true">> ELSE <<"false">>)))

\* lines 151-179, given the association line 149 read
CheckAuthWith(args, assoc, ist, est) ==
    IF assoc = NoAssoc
    THEN Result(_postErr(<<"no secret found for ">> \o Repr(args, "openid.assoc_handle")),
                ist, est)
    ELSE LET v == CheckVerdict(args, assoc)
             st == CheckStores(v.verdict, args, ist, est)
         IN IF v.verdict = "raise" THEN Raise(v.exc, ist, est)
            ELSE Result(CheckReply(v.verdict, args, st.estore), st.istore, st.estore)

_checkAuth(args, ist, est) ==
    IF ~Has(args, "openid.assoc_handle")
    THEN Raise(KeyError("openid.assoc_handle"), ist, est)
    ELSE CheckAuthWith(args, StoreLookup(ist, args["openid.assoc_handle"], HMAC_SHA1),
                       ist, est)

\* lines 99-101 without the except clause: every exception leaves
Uncaught(r) == r

\* lines 99-101: a KeyError becomes an error outcome, anything else leaves
Caught(r) ==
    IF r.exc # <<>> /\ Head(r.exc) = "KeyError"
    THEN Result(_postErr(<<"Necessary openid argument ('", r.exc[2], "') missing.">>),
                r.istore, r.estore)
    ELSE r

processPost(args, ist, est, x) ==
    IF ~Has(args, "openid.mode")
    THEN Caught(Raise(KeyError("openid.mode"), ist, est))
    ELSE IF args["openid.mode"] = <<"associate">>
    THEN Caught(_associate(args, ist, est, x))
    ELSE IF args["openid.mode"] = <<"check_authentication">>
    THEN Caught(_checkAuth(args, ist, est))
    ELSE Result(_postErr(<<"Unrecognized openid.mode (">> \o Repr(args, "openid.mode")
                            \o <<")">>), ist, est)

-----------------------------------------------------------------------------
(* The requests the callers send *)

Field(k, V) == {k :> v : v \in V}

Optional(k, V) == Field(k, V) \cup {EmptyDict}

Handles == {HandleOf(n) : n \in 1..MaxHandles}

Identities == {<<"alice">>, <<"bob">>}

GoodRoot == <<"http://rp/">>

GoodReturn == <<"http://rp/", "cb">>

BadReturn == <<"http://evil/", "cb">>

\* requests that pass the four checks of processGet, with every mode and handle
ValidGetArgs ==
    {i @@ t @@ r :
        i \in Field("openid.identity", Identities),
        t \in Field("openid.trust_root", {GoodRoot}),
        r \in Field("openid.return_to", {GoodReturn})}
    \cup
    {i @@ t @@ r @@ h @@ m :
        i \in Field("openid.identity", {<<"alice">>}),
        t \in Field("openid.trust_root", {GoodRoot}),
        r \in Field("openid.return_to", {GoodReturn}),
        h \in Optional("openid.assoc_handle", {<<>>} \cup Handles),
        m \in Optional("openid.mode",
                       {<<"checkid_immediate">>, <<"checkid_setup">>, <<"bogus">>})}
    \cup
    {i @@ t @@ r @@ h @@ g :
        i \in Field("openid.identity", {<<"alice">>}),
        t \in Field("openid.trust_root", {GoodRoot}),
        r \in Field("openid.return_to", {GoodReturn}),
        h \in Optional("openid.assoc_handle", Handles),
        g \in Field("openid.signed", {<<"mode">>})}
    \cup
    {i @@ t @@ r @@ m @@ g :
        i \in Field("openid.identity", {<<"alice">>}),
        t \in Field("openid.trust_root", {GoodRoot}),
        r \in Field("openid.return_to", {GoodReturn}),
        m \in Field("openid.mode", {<<"checkid_immediate">>, <<"checkid_setup">>}),
        g \in Field("openid.sig", {<<"bogus">>})}

\* requests with any field absent, empty or wrong
AnyGetArgs ==
    {i @@ t @@ r :
        i \in Optional("openid.identity", {<<"alice">>}),
        t \in Optional("openid.trust_root", {GoodRoot, <<"bad">>}),
        r \in Optional("openid.return_to", {<<>>, GoodReturn, BadReturn})}
    \cup
    {t @@ r @@ m :
        t \in Field("openid.trust_root", {GoodRoot}),
        r \in Field("openid.return_to", {BadReturn}),
        m \in Field("openid.mode", {<<"checkid_immediate">>})}

GetArgs == ValidGetArgs \cup AnyGetArgs

\* the group the consumers propose
DhParams == [p |-> 7, g |-> 3]

DhModulus == DhParams.p

DhGen == DhParams.g

\* the private keys DiffieHellman.fromBase64 may draw
PrivateKeys == {1, 2}

\* the public values a consumer may send
ConsumerPublics == {PowMod(DhGen, b, DhModulus) : b \in {1, 2}}

AssociateArgs ==
    {m @@ t @@ s :
        m \in Field("openid.mode", {<<"associate">>}),
        t \in Optional("openid.assoc_type", {HMAC_SHA1, <<"bogus">>}),
        s \in Optional("openid.session_type", {<<>>, <<"other">>})}
    \cup
    {m @@ t @@ s @@ p @@ g @@ c :
        m \in Field("openid.mode", {<<"associate">>}),
        t \in Optional("openid.assoc_type", {HMAC_SHA1, <<"bogus">>}),
        s \in Field("openid.session_type", {<<"DH-SHA1">>}),
        p \in Optional("openid.dh_modulus", {longToBase64(DhModulus)}),
        g \in Optional("openid.dh_gen", {longToBase64(DhGen)}),
        c \in Optional("openid.dh_consumer_public",
                       {longToBase64(n) : n \in ConsumerPublics})}

SignedLists == {Join(_signed_fields), Join(<<"mode", "identity">>)}

\* the secret of the internal association a handle names
InternalSecret(h) ==
    SecretOf("internal", CHOOSE n \in 1..MaxHandles : HandleOf(n) = h)

\* the signature of (identity i, return_to r) over the list sl under secret k
SigOver(k, i, r, sl) ==
    signReply(("openid.mode" :> <<"id_res">>) @@ ("openid.identity" :> i)
                 @@ ("openid.return_to" :> r), k, Split(sl)).sig

\* the signatures a caller may send with (h, sl, i, r): the right one, one
\* under another key, one made for other field values or another list, junk
SigChoices(h, sl, i, r) ==
    {<<"bogus">>}
    \cup {SigOver(InternalSecret(g), i, r, sl) : g \in Handles}
    \cup {SigOver(InternalSecret(h), j, r, sl) : j \in Identities}
    \cup {SigOver(InternalSecret(h), i, q, sl) : q \in {GoodReturn, BadReturn}}
    \cup {SigOver(InternalSecret(h), i, r, l) : l \in SignedLists}

CheckFields(h, sl, i, r, g) ==
    ("openid.mode" :> <<"check_authentication">>) @@ ("openid.assoc_handle" :> h)
        @@ ("openid.signed" :> sl) @@ ("openid.identity" :> i)
        @@ ("openid.return_to" :> r) @@ ("openid.sig" :> g)

DictDrop(d, k) == [x \in DOMAIN d \ {k} |-> d[x]]

\* well-formed check_authentication requests for alice: every choice of
\* signature; with invalidate_handle, the right signature and a wrong one
SignedCheckArgs ==
    UNION {{CheckFields(b[1], b[2], <<"alice">>, GoodReturn, g) :
                g \in SigChoices(b[1], b[2], <<"alice">>, GoodReturn)} :
           b \in Handles \X SignedLists}
    \cup
    UNION {{CheckFields(b[1], b[2], <<"alice">>, GoodReturn, g) @@ v :
                g \in {<<"bogus">>,
                        SigOver(InternalSecret(b[1]), <<"alice">>, GoodReturn, b[2])},
                v \in Field("openid.invalidate_handle", {<<>>, HandleOf(1)})} :
           b \in Handles \X SignedLists}

\* the same requests with the value of identity or of return_to changed and
\* the signature kept
AlteredCheckArgs ==
    {CheckFields(h, sl, i, r, SigOver(InternalSecret(h), <<"alice">>, GoodReturn, sl)) :
        h \in Handles, sl \in SignedLists,
        i \in Identities, r \in {GoodReturn, BadReturn}}

FullCheckArgs == SignedCheckArgs \cup AlteredCheckArgs

\* check_authentication requests that lack one field
PartialCheckArgs ==
    {DictDrop(CheckFields(h, sl, <<"alice">>, GoodReturn,
                          SigOver(InternalSecret(h), <<"alice">>, GoodReturn, sl)), k) :
        h \in Handles, sl \in SignedLists,
        k \in {"openid.assoc_handle", "openid.signed", "openid.sig", "openid.identity"}}

CheckArgs == FullCheckArgs \cup PartialCheckArgs

PostArgs ==
    AssociateArgs \cup CheckArgs \cup Optional("openid.mode", {<<"bogus">>})

-----------------------------------------------------------------------------
(* The provider serving one request at a time *)

\* lines 44, 157: the handlers write to copies (nargs = dict(args),
\* dat = dict(args)) and never to the mapping the caller passed
ArgsAfter(args) == args

NoCall ==
    [op |-> "none", authorized |-> FALSE, args |-> EmptyDict, ret |-> RAISED(<<>>),
     istore |-> EmptyStore("internal"), estore |-> EmptyStore("external"),
     after |-> EmptyDict]

\* a call just answered: its request, its outcome, the stores it found and
\* the caller's mapping as the call left it
Call(op, authorized, args, ret) ==
    [op |-> op, authorized |-> authorized, args |-> args, ret |-> ret,
     istore |-> istore, estore |-> estore, after |-> ArgsAfter(args)]

Init ==
    /\ istore = EmptyStore("internal")
    /\ estore = EmptyStore("external")
    /\ phase = "idle"
    /\ last = NoCall
    /\ pc = [t \in {} |-> "idle"]
    /\ targs = [t \in {} |-> EmptyDict]
    /\ tassoc = [t \in {} |-> NoAssoc]
    /\ tret = [t \in {} |-> RAISED(<<>>)]

ProcessGet ==
    /\ phase = "idle"
    /\ \E authorized \in BOOLEAN, args \in GetArgs :
         LET r == processGet(authorized, args, istore, estore) IN
           /\ r.istore.next <= MaxHandles
           /\ istore' = r.istore
           /\ estore' = r.estore
           /\ last' = Call("processGet", authorized, args, r.ret)
    /\ phase' = "returned"
    /\ UNCHANGED <<pc, targs, tassoc, tret>>

ProcessPost ==
    /\ phase = "idle"
    /\ \E args \in PostArgs, x \in PrivateKeys :
         LET r == processPost(args, istore, estore, x) IN
           /\ r.estore.next <= MaxHandles
           /\ istore' = r.istore
           /\ estore' = r.estore
           /\ last' = Call("processPost", FALSE, args, r.ret)
    /\ phase' = "returned"
    /\ UNCHANGED <<pc, targs, tassoc, tret>>

\* the caller takes the outcome
Deliver ==
    /\ phase = "returned"
    /\ phase' = "idle"
    /\ last' = NoCall
    /\ UNCHANGED <<istore, estore, pc, targs, tassoc, tret>>

Live(store) == \E h \in DOMAIN store.assocs : store.assocs[h].expiresIn > 0

\* a second passes between two requests
Tick ==
    /\ phase = "idle"
    /\ Live(istore) \/ Live(estore)
    /\ istore' = StoreAge(istore)
    /\ estore' = StoreAge(estore)
    /\ UNCHANGED <<phase, last, pc, targs, tassoc, tret>>

Next == ProcessGet \/ ProcessPost \/ Deliver \/ Tick

Spec == Init /\ [][Next]_vars

-----------------------------------------------------------------------------
(* Two requests served at once.  The provider holds no lock: the calls of  *)
(* _checkAuth on the stores (lines 149, 164 or 175, 169) are the atomic    *)
(* steps, and the steps of two workers interleave freely.                  *)

Workers == {"w1", "w2"}

\* the dumb-mode logins that put associations into the internal store
LoginArgs == {a \in ValidGetArgs : ~Has(a, "openid.assoc_handle") /\ ~Has(a, "openid.mode")}

\* the associate requests that establish a DH-SHA1 session
SessionArgs ==
    {a \in AssociateArgs :
        /\ ~Has(a, "openid.assoc_type")
        /\ Has(a, "openid.session_type") /\ a["openid.session_type"] = <<"DH-SHA1">>
        /\ Has(a, "openid.dh_modulus") /\ Has(a, "openid.dh_gen")
        /\ Has(a, "openid.dh_consumer_public")}

\* the check_authentication requests the two workers serve: the reply of a
\* login for alice with its signature or with a forged one
WorkerArgs ==
    {CheckFields(h, Join(_signed_fields), <<"alice">>, GoodReturn, <<"bogus">>) :
        h \in Handles}
    \cup
    {CheckFields(h, Join(_signed_fields), <<"alice">>, GoodReturn,
                 SigOver(InternalSecret(h), <<"alice">>, GoodReturn, Join(_signed_fields))) :
        h \in Handles}
    \cup
    {CheckFields(h, Join(_signed_fields), <<"alice">>, GoodReturn,
                 SigOver(InternalSecret(h), <<"alice">>, GoodReturn, Join(_signed_fields)))
        @@ ("openid.invalidate_handle" :> HandleOf(1)) : h \in Handles}

InitWorkers ==
    /\ istore = EmptyStore("internal")
    /\ estore = EmptyStore("external")
    /\ phase = "idle"
    /\ last = NoCall
    /\ pc = [t \in Workers |-> "idle"]
    /\ targs = [t \in Workers |-> EmptyDict]
    /\ tassoc = [t \in Workers |-> NoAssoc]
    /\ tret = [t \in Workers |-> RAISED(<<>>)]

\* an authorized login without a handle, answered in one step
Login ==
    /\ istore.next < MaxHandles
    /\ \E args \in LoginArgs :
         LET r == processGet(TRUE, args, istore, estore) IN
           /\ r.istore.next <= MaxHandles
           /\ istore' = r.istore
           /\ estore' = r.estore
    /\ UNCHANGED <<phase, last, pc, targs, tassoc, tret>>

\* an associate request with a DH-SHA1 session, answered in one step
Associate ==
    /\ estore.next < MaxHandles
    /\ \E args \in SessionArgs, x \in PrivateKeys :
         LET r == processPost(args, istore, estore, x) IN
           /\ r.estore.next <= MaxHandles
           /\ istore' = r.istore
           /\ estore' = r.estore
    /\ UNCHANGED <<phase, last, pc, targs, tassoc, tret>>

Elapse ==
    /\ Live(istore) \/ Live(estore)
    /\ istore' = StoreAge(istore)
    /\ estore' = StoreAge(estore)
    /\ UNCHANGED <<phase, last, pc, targs, tassoc, tret>>

\* lines 92-96 and 149: the request arrives and the association is read
WorkerLookup(t) ==
    /\ pc[t] = "idle"
    /\ \E args \in WorkerArgs :
         /\ targs' = [targs EXCEPT ![t] = args]
         /\ tassoc' = [tassoc EXCEPT ![t] =
                          StoreLookup(istore, args["openid.assoc_handle"], HMAC_SHA1)]
    /\ pc' = [pc EXCEPT ![t] = "looked"]
    /\ UNCHANGED <<istore, estore, phase, last, tret>>

\* lines 151-165 and 172-179: the verdict on the association read earlier
\* and the store call that goes with it
WorkerVerify(t) ==
    /\ pc[t] = "looked"
    /\ LET v == CheckVerdict(targs[t], tassoc[t])
           st == CheckStores(v.verdict, targs[t], istore, estore)
       IN IF tassoc[t] = NoAssoc
          THEN /\ tret' = [tret EXCEPT ![t] =
                              CheckAuthWith(targs[t], NoAssoc, istore, estore).ret]
               /\ pc' = [pc EXCEPT ![t] = "done"]
               /\ UNCHANGED <<istore, estore>>
          ELSE IF v.verdict = "raise"
          THEN /\ tret' = [tret EXCEPT ![t] = Caught(Raise(v.exc, istore, estore)).ret]
               /\ pc' = [pc EXCEPT ![t] = "done"]
               /\ UNCHANGED <<istore, estore>>
          ELSE IF v.verdict = "match"
          THEN /\ istore' = st.istore
               /\ estore' = st.estore
               /\ pc' = [pc EXCEPT ![t] = "matched"]
               /\ UNCHANGED tret
          ELSE /\ istore' = st.istore
               /\ estore' = st.estore
               /\ tret' = [tret EXCEPT ![t] = CheckReply(v.verdict, targs[t], st.estore)]
               /\ pc' = [pc EXCEPT ![t] = "done"]
    /\ UNCHANGED <<phase, last, targs, tassoc>>

\* lines 165-179 after a match: the invalidate_handle lookup and the reply
WorkerReply(t) ==
    /\ pc[t] = "matched"
    /\ tret' = [tret EXCEPT ![t] = CheckReply("match", targs[t], estore)]
    /\ pc' = [pc EXCEPT ![t] = "done"]
    /\ UNCHANGED <<istore, estore, phase, last, targs, tassoc>>

NextWorkers ==
    \/ Login
    \/ Associate
    \/ Elapse
    \/ \E t \in Workers : WorkerLookup(t)
    \/ \E t \in Workers : WorkerVerify(t)
    \/ \E t \in Workers : WorkerReply(t)

SpecWorkers == InitWorkers /\ [][NextWorkers]_vars

-----------------------------------------------------------------------------
(* Reading the call just answered *)

Returned == phase = "returned"

Arg(k) == last.args[k]

Get == Returned /\ last.op = "processGet"

Post == Returned /\ last.op = "processPost"

CheckAuth ==
    /\ Post
    /\ Has(last.args, "openid.mode")
    /\ Arg("openid.mode") = <<"check_authentication">>

AssociateCall ==
    /\ Post
    /\ Has(last.args, "openid.mode")
    /\ Arg("openid.mode") = <<"associate">>

\* the four checks of processGet pass
Validated ==
    /\ Has(last.args, "openid.identity")
    /\ Has(last.args, "openid.trust_root") /\ Arg("openid.trust_root") = GoodRoot
    /\ Has(last.args, "openid.return_to") /\ Arg("openid.return_to") = GoodReturn

SignedGet == Get /\ last.authorized /\ Validated

\* the reply a REDIRECT carries
Reply == last.ret.url.query

KVLine(k, v) == <<k, ":">> \o v \o <<"\n">>

IsValid(ret, b) == ret.kind = "OK" /\ KVLine("is_valid", <<b>>) \in ret.body

NotFound(ret, h) ==
    /\ ret.kind = "ERROR"
    /\ ret.body = {KVLine("error", <<"no secret found for ", "'">> \o h \o <<"'">>)}

\* the digest over mode, identity and return_to of a reply, under a secret
FixedDigest(q, secret) ==
    toBase64(<<"hmac-sha1", "key">> \o Str(secret)
             \o <<"mode", ":">> \o q["openid.mode"] \o <<"\n">>
             \o <<"identity", ":">> \o q["openid.identity"] \o <<"\n">>
             \o <<"return_to", ":">> \o q["openid.return_to"] \o <<"\n">>)

FixedList == <<"mode", ",", "identity", ",", "return_to">>

\* the association whose handle the reply carries
ReplyAssoc ==
    LET h == Reply["openid.assoc_handle"] IN
    IF h \in DOMAIN istore.assocs /\ h \notin DOMAIN last.istore.assocs
    THEN istore.assocs[h]
    ELSE StoreLookup(last.estore, h, HMAC_SHA1)

-----------------------------------------------------------------------------
(* C1-C10 *)

\* C1: after check_authentication on a live internal handle h answers
\* is_valid=true, h is gone from the internal store and the same request sent
\* again gets the error 'no secret found', not is_valid=true.
C1_SingleUse ==
    (CheckAuth /\ IsValid(last.ret, "true")) =>
        /\ Arg("openid.assoc_handle") \notin DOMAIN istore.assocs
        /\ \A x \in PrivateKeys :
             NotFound(processPost(last.args, istore, estore, x).ret,
                      Arg("openid.assoc_handle"))

\* a worker has seen the signature of its request match a live association
ObservedValid(t) ==
    \/ pc[t] = "matched"
    \/ pc[t] = "done" /\ IsValid(tret[t], "true")

\* C2: of two check_authentication requests for the same internal handle
\* served at the same time, at most one observes the association as valid and
\* answers is_valid=true.
C2_AtMostOneValid ==
    \A t, u \in DOMAIN pc :
        (t # u /\ ObservedValid(t) /\ ObservedValid(u)) =>
            targs[t]["openid.assoc_handle"] # targs[u]["openid.assoc_handle"]

\* C3: every call of processGet and processPost ends in one of the four
\* outcomes REDIRECT, DO_AUTH, OK, ERROR; no exception reaches the caller.
C3_TypedOutcome ==
    Returned => last.ret.kind \in {"REDIRECT", "DO_AUTH", "OK", "ERROR"}

\* C4: the reply of an authorized, validated processGet names the signed
\* fields mode,identity,return_to whatever the request holds, and its sig is
\* the digest of its own mode=id_res, identity and return_to under the secret
\* of the association whose handle it carries.
C4_FixedSignedSet ==
    SignedGet =>
        /\ last.ret.kind = "REDIRECT"
        /\ last.ret.url.base = Arg("openid.return_to")
        /\ Reply["openid.mode"] = <<"id_res">>
        /\ Reply["openid.identity"] = Arg("openid.identity")
        /\ Reply["openid.return_to"] = Arg("openid.return_to")
        /\ Reply["openid.signed"] = FixedList
        /\ ReplyAssoc # NoAssoc
        /\ ReplyAssoc.handle = Reply["openid.assoc_handle"]
        /\ Reply["openid.sig"] = FixedDigest(Reply, ReplyAssoc.secret)

C4_Witness ==
    /\ SignedGet
    /\ Has(last.args, "openid.signed")
    /\ Reply["openid.signed"] # Arg("openid.signed")
    /\ Reply["openid.sig"] = FixedDigest(Reply, ReplyAssoc.secret)

\* the handle the consumer named cannot be used: absent from the external
\* store, or there with no time left
StaleHandle ==
    /\ SignedGet
    /\ Has(last.args, "openid.assoc_handle") /\ Arg("openid.assoc_handle") # <<>>
    /\ \/ Arg("openid.assoc_handle") \notin DOMAIN last.estore.assocs
       \/ last.estore.assocs[Arg("openid.assoc_handle")].expiresIn <= 0

\* C5: an authorized processGet naming a handle h that the external store
\* lacks or holds expired signs with a freshly issued internal association,
\* carries its handle and invalidate_handle = h, and leaves no h in the
\* external store when h was there expired.
C5_StaleFallsBack ==
    StaleHandle =>
        LET h == Arg("openid.assoc_handle")
            n == Reply["openid.assoc_handle"]
        IN /\ n \notin DOMAIN last.istore.assocs
           /\ n \in DOMAIN istore.assocs
           /\ DOMAIN istore.assocs = DOMAIN last.istore.assocs \cup {n}
           /\ istore.next = last.istore.next + 1
           /\ Reply["openid.sig"] = FixedDigest(Reply, istore.assocs[n].secret)
           /\ Has(Reply, "openid.invalidate_handle")
           /\ Reply["openid.invalidate_handle"] = h
           /\ h \in DOMAIN last.estore.assocs => h \notin DOMAIN estore.assocs

C5_Witness ==
    /\ StaleHandle
    /\ Arg("openid.assoc_handle") \in DOMAIN last.estore.assocs
    /\ Arg("openid.assoc_handle") \notin DOMAIN estore.assocs
    /\ Reply["openid.invalidate_handle"] = Arg("openid.assoc_handle")

\* the handle the consumer named is a live association of the external store
LiveHandle ==
    /\ SignedGet
    /\ Has(last.args, "openid.assoc_handle")
    /\ Arg("openid.assoc_handle") \in DOMAIN last.estore.assocs
    /\ last.estore.assocs[Arg("openid.assoc_handle")].expiresIn > 0

\* C6: an authorized processGet naming a handle h that associate issued and
\* that is still live in the external store answers with assoc_handle = h,
\* signed with h's secret, without invalidate_handle, and changes neither
\* store.
C6_SmartMode ==
    LiveHandle =>
        LET h == Arg("openid.assoc_handle") IN
        /\ Reply["openid.assoc_handle"] = h
        /\ Reply["openid.sig"] = FixedDigest(Reply, last.estore.assocs[h].secret)
        /\ ~Has(Reply, "openid.invalidate_handle")
        /\ istore = last.istore
        /\ estore = last.estore
        /\ h \in DOMAIN estore.assocs

C6_Witness ==
    /\ LiveHandle
    /\ Reply["openid.assoc_handle"] = Arg("openid.assoc_handle")
    /\ Arg("openid.assoc_handle") \in DOMAIN last.istore.assocs
    /\ istore = last.istore

\* the request names an internal association with no time left
ExpiredCheck ==
    /\ CheckAuth
    /\ Has(last.args, "openid.assoc_handle")
    /\ Arg("openid.assoc_handle") \in DOMAIN last.istore.assocs
    /\ last.istore.assocs[Arg("openid.assoc_handle")].expiresIn <= 0

\* C7: check_authentication on an expired internal handle answers OK with
\* is_valid=false and removes the handle from the internal store; the same
\* request sent again gets the error for a handle that is not found.
C7_ExpiredCleanup ==
    ExpiredCheck =>
        /\ last.ret = OK({KVLine("is_valid", <<"false">>)})
        /\ Arg("openid.assoc_handle") \notin DOMAIN istore.assocs
        /\ \A x \in PrivateKeys :
             NotFound(processPost(last.args, istore, estore, x).ret,
                      Arg("openid.assoc_handle"))

C7_Witness ==
    /\ ExpiredCheck
    /\ IsValid(last.ret, "false")
    /\ {"openid.signed", "openid.sig", "openid.identity", "openid.return_to"}
          \subseteq DOMAIN last.args
    /\ Arg("openid.sig") =
         SigOver(last.istore.assocs[Arg("openid.assoc_handle")].secret,
                 Arg("openid.identity"), Arg("openid.return_to"), Arg("openid.signed"))

\* the replies processGet signs with the internal association a
GenuineReplies(a) ==
    {SignedReply(g, a, FALSE) : g \in LoginArgs}

\* the request is the reply q with its sig changed, or with the value of
\* identity or return_to changed
TamperedFrom(q) ==
    /\ {"openid.signed", "openid.sig", "openid.identity", "openid.return_to"}
          \subseteq DOMAIN last.args
    /\ Arg("openid.assoc_handle") = q["openid.assoc_handle"]
    /\ Arg("openid.signed") = q["openid.signed"]
    /\ \/ /\ Arg("openid.sig") # q["openid.sig"]
          /\ Arg("openid.identity") = q["openid.identity"]
          /\ Arg("openid.return_to") = q["openid.return_to"]
       \/ /\ Arg("openid.sig") = q["openid.sig"]
          /\ \/ Arg("openid.identity") # q["openid.identity"]
             \/ Arg("openid.return_to") # q["openid.return_to"]

\* the request tampers with a reply signed with an internal association that
\* the store still holds
TamperedCheck ==
    /\ CheckAuth
    /\ Has(last.args, "openid.assoc_handle")
    /\ Arg("openid.assoc_handle") \in DOMAIN last.istore.assocs
    /\ \E q \in GenuineReplies(last.istore.assocs[Arg("openid.assoc_handle")]) :
          TamperedFrom(q)

\* C8: a reply of processGet signed with an internal association, sent to
\* check_authentication with its sig, its identity or its return_to changed,
\* gets is_valid=false.
C8_TamperRejected == TamperedCheck => IsValid(last.ret, "false")

C8_Witness ==
    /\ TamperedCheck
    /\ last.istore.assocs[Arg("openid.assoc_handle")].expiresIn > 0
    /\ Arg("openid.signed") = FixedList
    /\ Arg("openid.identity") = <<"bob">>
    /\ Arg("openid.sig") =
         SigOver(last.istore.assocs[Arg("openid.assoc_handle")].secret,
                 <<"alice">>, Arg("openid.return_to"), FixedList)
    /\ IsValid(last.ret, "false")

\* the request names a live internal association and its sig differs from
\* the signature recomputed over the fields its signed list names
MismatchCheck ==
    /\ CheckAuth
    /\ {"openid.assoc_handle", "openid.signed", "openid.sig"} \subseteq DOMAIN last.args
    /\ Arg("openid.assoc_handle") \in DOMAIN last.istore.assocs
    /\ last.istore.assocs[Arg("openid.assoc_handle")].expiresIn > 0
    /\ MissingSigned(last.args, Split(Arg("openid.signed"))) = {}
    /\ Arg("openid.sig") #
         signReply(DictSet(last.args, "openid.mode", <<"id_res">>),
                   last.istore.assocs[Arg("openid.assoc_handle")].secret,
                   Split(Arg("openid.signed"))).sig

\* C9: on a signature mismatch check_authentication answers is_valid=false
\* and removes nothing: both stores are as they were before the call.
C9_MismatchKeeps ==
    MismatchCheck =>
        /\ last.ret = OK({KVLine("is_valid", <<"false">>)})
        /\ istore = last.istore
        /\ estore = last.estore

C9_Witness ==
    /\ MismatchCheck
    /\ Arg("openid.assoc_handle") \in DOMAIN last.estore.assocs
    /\ IsValid(last.ret, "false")
    /\ istore = last.istore

\* an associate request with a supported type and no session
PlainAssociate ==
    /\ AssociateCall
    /\ Has(last.args, "openid.assoc_type") => Arg("openid.assoc_type") = HMAC_SHA1
    /\ ~Has(last.args, "openid.session_type")

\* C10: associate with a supported assoc_type and no session_type answers OK
\* with assoc_type, assoc_handle and expires_in of an association freshly
\* issued from the external store and mac_key, the base64 of its secret.
C10_PlainAssociate ==
    PlainAssociate =>
        \E h \in DOMAIN estore.assocs \ DOMAIN last.estore.assocs :
            /\ last.ret.kind = "OK"
            /\ last.ret.body =
                 {KVLine("assoc_type", HMAC_SHA1),
                  KVLine("assoc_handle", h),
                  KVLine("expires_in", Str(estore.assocs[h].expiresIn)),
                  KVLine("mac_key", toBase64(Str(estore.assocs[h].secret)))}

-----------------------------------------------------------------------------
(* C11-C20 *)

\* the message of the first check of processGet the request fails, <<>> when
\* it passes all four: identity, trust_root, return_to present, return_to
\* under the trust root
FirstFailure(args) ==
    IF ~Has(args, "openid.identity") THEN <<"No identity specified">>
    ELSE IF ~Has(args, "openid.trust_root") THEN <<"Malformed trust_root: ", "None">>
    ELSE IF args["openid.trust_root"] # GoodRoot
    THEN <<"Malformed trust_root: ">> \o args["openid.trust_root"]
    ELSE IF ~Has(args, "openid.return_to") THEN <<"No return_to URL specified">>
    ELSE IF args["openid.return_to"] \notin {GoodReturn}
    THEN <<"return_to(">> \o args["openid.return_to"]
            \o <<") not valid against trust_root(">> \o GoodRoot \o <<")">>
    ELSE <<>>

FailedGet == Get /\ FirstFailure(last.args) # <<>>

\* C11: processGet checks identity, trust_root, return_to present, return_to
\* under the trust root, in that order, and the first check that fails names
\* the message; with a non-empty return_to the outcome is a REDIRECT to that
\* return_to carrying mode=error and error=<message> (also when return_to is
\* the field that failed), otherwise it is the raw ERROR with the message.
C11_FirstFailureDecides ==
    FailedGet =>
        IF Has(last.args, "openid.return_to") /\ Arg("openid.return_to") # <<>>
        THEN /\ last.ret.kind = "REDIRECT"
             /\ last.ret.url.base = Arg("openid.return_to")
             /\ last.ret.url.query =
                    ("openid.mode" :> <<"error">>)
                      @@ ("openid.error" :> FirstFailure(last.args))
        ELSE /\ last.ret.kind = "ERROR"
             /\ last.ret.msg = FirstFailure(last.args)

\* a return_to outside the trust root got the error, naming both
C11_Witness ==
    /\ FailedGet
    /\ Has(last.args, "openid.identity")
    /\ Has(last.args, "openid.trust_root") /\ Arg("openid.trust_root") = GoodRoot
    /\ Has(last.args, "openid.return_to") /\ Arg("openid.return_to") = BadReturn
    /\ last.ret.kind = "REDIRECT"
    /\ last.ret.url.base = BadReturn
    /\ last.ret.url.query["openid.error"] =
          <<"return_to(">> \o BadReturn \o <<") not valid against trust_root(">>
            \o GoodRoot \o <<")">>

\* the error outcome of processPost that names k as the missing argument
Named(ret, k) ==
    /\ ret.kind = "ERROR"
    /\ ret.body = {KVLine("error", <<"Necessary openid argument ('", k, "') missing.">>)}

\* the first key of the sequence ks that the request lacks, "" when none
RECURSIVE FirstMissing(_, _)
FirstMissing(args, ks) ==
    IF ks = <<>> THEN ""
    ELSE IF ~Has(args, Head(ks)) THEN Head(ks)
    ELSE FirstMissing(args, Tail(ks))

DhFields == <<"openid.dh_modulus", "openid.dh_gen", "openid.dh_consumer_public">>

DhAssociate ==
    /\ AssociateCall
    /\ Has(last.args, "openid.session_type")
    /\ Arg("openid.session_type") = <<"DH-SHA1">>

UnknownMode ==
    /\ Post
    /\ Has(last.args, "openid.mode")
    /\ Arg("openid.mode") \notin {<<"associate">>, <<"check_authentication">>}

NamesMode(ret, m) ==
    /\ ret.kind = "ERROR"
    /\ ret.body = {KVLine("error", <<"Unrecognized openid.mode (", "'">> \o m \o <<"'", ")">>)}

\* C12 as stated: processPost returns ERROR naming the missing field whenever
\* mode is absent or a field the chosen branch requires is absent
\* (assoc_handle, signed or sig for check_authentication; dh_modulus, dh_gen
\* or dh_consumer_public for associate with session_type=DH-SHA1), and ERROR
\* naming the mode when the mode is neither of the two.
C12_MissingFieldNamed ==
    Post =>
        /\ ~Has(last.args, "openid.mode") => Named(last.ret, "openid.mode")
        /\ CheckAuth =>
              LET miss == {"openid.assoc_handle", "openid.signed", "openid.sig"}
                             \ DOMAIN last.args
              IN miss # {} => \E k \in miss : Named(last.ret, k)
        /\ DhAssociate =>
              LET miss == {DhFields[i] : i \in 1..3} \ DOMAIN last.args
              IN miss # {} => \E k \in miss : Named(last.ret, k)
        /\ UnknownMode => NamesMode(last.ret, Arg("openid.mode"))

\* the internal association the request's handle named when the call began
CheckedAssoc ==
    IF Has(last.args, "openid.assoc_handle")
    THEN StoreLookup(last.istore, Arg("openid.assoc_handle"), HMAC_SHA1)
    ELSE NoAssoc

LiveCheck == CheckAuth /\ CheckedAssoc # NoAssoc /\ CheckedAssoc.expiresIn > 0

\* the fields _checkAuth reads of a live association's request, in order:
\* signed, the fields signed names, sig
CheckReads ==
    IF ~Has(last.args, "openid.signed") THEN <<"openid.signed">>
    ELSE <<"openid.signed">>
           \o [i \in 1..Len(Split(Arg("openid.signed"))) |->
                  Prefixed(Split(Arg("openid.signed"))[i])]
           \o <<"openid.sig">>

SupportedType ==
    ~Has(last.args, "openid.assoc_type") \/ Arg("openid.assoc_type") = HMAC_SHA1

\* C12, amended: processPost returns ERROR naming the missing field when mode
\* is absent, when check_authentication lacks assoc_handle, when
\* check_authentication on a handle that names a live internal association
\* lacks signed, a field signed names, or sig (the first one in that order),
\* and when associate with a supported assoc_type and session_type=DH-SHA1
\* lacks dh_modulus, dh_gen or dh_consumer_public (the first one in that
\* order); an unknown mode gets ERROR naming the mode. A check_authentication
\* lacking signed or sig on an unknown handle gets 'no secret found', and on
\* an expired handle OK is_valid=false; an associate with an unsupported
\* assoc_type gets the error about the type whatever else it lacks.
C12_ReadFieldNamed ==
    Post =>
        /\ ~Has(last.args, "openid.mode") => Named(last.ret, "openid.mode")
        /\ (CheckAuth /\ ~Has(last.args, "openid.assoc_handle"))
              => Named(last.ret, "openid.assoc_handle")
        /\ (LiveCheck /\ FirstMissing(last.args, CheckReads) # "")
              => Named(last.ret, FirstMissing(last.args, CheckReads))
        /\ (CheckAuth /\ Has(last.args, "openid.assoc_handle") /\ CheckedAssoc = NoAssoc)
              => NotFound(last.ret, Arg("openid.assoc_handle"))
        /\ (CheckAuth /\ CheckedAssoc # NoAssoc /\ ~LiveCheck)
              => IsValid(last.ret, "false")
        /\ (DhAssociate /\ SupportedType /\ FirstMissing(last.args, DhFields) # "")
              => Named(last.ret, FirstMissing(last.args, DhFields))
        /\ (AssociateCall /\ ~SupportedType)
              => /\ last.ret.kind = "ERROR"
                 /\ last.ret.body =
                       {KVLine("error", <<"unable to create an association for type ">>
                                           \o Repr(last.args, "openid.assoc_type"))}
        /\ UnknownMode => NamesMode(last.ret, Arg("openid.mode"))

\* a check_authentication on a live handle that lacked sig was told so
C12_Witness ==
    /\ LiveCheck
    /\ Has(last.args, "openid.signed")
    /\ ~Has(last.args, "openid.sig")
    /\ Named(last.ret, "openid.sig")

ImmediateDenied ==
    /\ Get /\ ~last.authorized /\ Validated
    /\ Has(last.args, "openid.mode")
    /\ Arg("openid.mode") = <<"checkid_immediate">>

\* C13: a validated checkid_immediate request that is not authorized is
\* answered REDIRECT to the provider's own URL, with the request's fields as
\* arguments: mode rewritten to checkid_setup, every other field as sent;
\* the mapping the caller passed is as it was.
C13_ImmediateToSetup ==
    ImmediateDenied =>
        /\ last.ret.kind = "REDIRECT"
        /\ last.ret.url.base = ServerUrl
        /\ DOMAIN last.ret.url.query = DOMAIN last.args
        /\ last.ret.url.query["openid.mode"] = <<"checkid_setup">>
        /\ \A k \in DOMAIN last.args \ {"openid.mode"} :
              last.ret.url.query[k] = last.args[k]
        /\ last.after = last.args
        /\ last.after["openid.mode"] = <<"checkid_immediate">>

\* such a request carrying an assoc_handle was redirected to the provider
C13_Witness ==
    /\ ImmediateDenied
    /\ Has(last.args, "openid.assoc_handle")
    /\ last.ret.kind = "REDIRECT"
    /\ last.ret.url.base = ServerUrl
    /\ last.ret.url.query["openid.assoc_handle"] = Arg("openid.assoc_handle")
    /\ last.ret.url.query["openid.mode"] = <<"checkid_setup">>

\* the invalidate_handle lines of a key-value body
InvalidateLines(ret) == {l \in ret.body : l[1] = "invalidate_handle"}

\* the request names a handle to invalidate
CarriesInvalidate ==
    /\ Has(last.args, "openid.invalidate_handle")
    /\ Arg("openid.invalidate_handle") # <<>>

\* C14: a check_authentication whose signature matches echoes
\* invalidate_handle, with the request's value, exactly when the request
\* carries a non-empty invalidate_handle and the external store the call
\* found does not hold that handle; a check that does not match, or whose
\* association has expired, echoes none.
C14_InvalidateEcho ==
    (CheckAuth /\ last.ret.kind = "OK") =>
        IF IsValid(last.ret, "true")
        THEN IF CarriesInvalidate
                /\ StoreLookup(last.estore, Arg("openid.invalidate_handle"), HMAC_SHA1)
                      = NoAssoc
             THEN InvalidateLines(last.ret)
                    = {KVLine("invalidate_handle", Arg("openid.invalidate_handle"))}
             ELSE InvalidateLines(last.ret) = {}
        ELSE InvalidateLines(last.ret) = {}

\* an associate request with a DH-SHA1 session that was answered
DhIssued == DhAssociate /\ last.ret.kind = "OK"

\* the private exponents b a consumer may hold: its public value is g^b mod p
ConsumerKeys == 1..(DhModulus - 1)

\* what the consumer computes from the reply's dh_server_public n and
\* enc_mac_key m with its exponent b
ConsumerSecret(n, m, b) == strxor(m, sha1(PowMod(n, b, DhModulus)))

\* the numbers a key-value reply can carry
Numbers == 0..(Len(Digits) - 1)

\* C15: the reply to an associate request with session_type=DH-SHA1 carries
\* session_type, dh_server_public and enc_mac_key and no mac_key, and the
\* consumer, whose exponent b made the dh_consumer_public it sent, recovers
\* the secret of the association the reply names by XORing enc_mac_key with
\* SHA1 of dh_server_public^b mod p.
C15_ConsumerRecoversSecret ==
    DhIssued =>
        /\ KVLine("session_type", <<"DH-SHA1">>) \in last.ret.body
        /\ \A l \in last.ret.body : l[1] # "mac_key"
        /\ \E h \in DOMAIN estore.assocs \ DOMAIN last.estore.assocs,
               n \in Numbers, m \in Numbers :
              /\ KVLine("assoc_handle", h) \in last.ret.body
              /\ KVLine("dh_server_public", longToBase64(n)) \in last.ret.body
              /\ KVLine("enc_mac_key", toBase64(Str(m))) \in last.ret.body
              /\ \A b \in ConsumerKeys :
                    longToBase64(PowMod(DhGen, b, DhModulus))
                        = Arg("openid.dh_consumer_public")
                      => ConsumerSecret(n, m, b) = estore.assocs[h].secret

\* a consumer with exponent 2 was answered, and the key it was sent is not
\* the secret itself
C15_Witness ==
    /\ DhIssued
    /\ Arg("openid.dh_consumer_public") = longToBase64(PowMod(DhGen, 2, DhModulus))
    /\ \E h \in DOMAIN estore.assocs \ DOMAIN last.estore.assocs, m \in Numbers :
          /\ KVLine("enc_mac_key", toBase64(Str(m))) \in last.ret.body
          /\ m # estore.assocs[h].secret

\* the is_valid verdict an outcome carries, "none" when it carries none
Verdict(ret) ==
    IF IsValid(ret, "true") THEN "true"
    ELSE IF IsValid(ret, "false") THEN "false"
    ELSE "none"

\* two requests have the same value, or both none, under k
SameAt(a, b, k) == (Has(a, k) <=> Has(b, k)) /\ (Has(a, k) => a[k] = b[k])

\* the fields the signed list of a request names, mode apart: _checkAuth
\* forces mode to id_res
SignedNames(a) ==
    {Prefixed(Split(a["openid.signed"])[i]) : i \in 1..Len(Split(a["openid.signed"]))}
        \ {"openid.mode"}

Agree(a, b) ==
    /\ {"openid.assoc_handle", "openid.signed", "openid.sig"} \subseteq DOMAIN b
    /\ \A k \in {"openid.assoc_handle", "openid.signed", "openid.sig"} : a[k] = b[k]
    /\ \A k \in SignedNames(a) : SameAt(a, b, k)

\* the fields of a check_authentication request that signed may leave out
FreeFields == {"openid.identity", "openid.return_to", "openid.invalidate_handle"}

\* every choice of values for those fields
FreeValues ==
    {i @@ r @@ v :
        i \in Optional("openid.identity", {<<"bob">>}),
        r \in Field("openid.return_to", {GoodReturn, BadReturn}),
        v \in Optional("openid.invalidate_handle", {HandleOf(1)})}

\* the requests that differ from a in fields signed does not name only
Variants(a) ==
    LET free == FreeFields \ SignedNames(a)
        kept == [k \in DOMAIN a \ free |-> a[k]]
    IN {kept @@ [k \in DOMAIN o \cap free |-> o[k]] : o \in FreeValues}

\* check_authentication draws no private key: any one will do
AnyKey == CHOOSE x \in PrivateKeys : TRUE

CompleteCheck ==
    /\ CheckAuth
    /\ {"openid.assoc_handle", "openid.signed", "openid.sig"} \subseteq DOMAIN last.args

\* a request whose signed list the caller narrowed to mode and identity and
\* whose sig is the digest of those two fields under the association's secret
NarrowedCheck ==
    /\ CompleteCheck /\ LiveCheck
    /\ Arg("openid.signed") = Join(<<"mode", "identity">>)
    /\ Has(last.args, "openid.identity")
    /\ Arg("openid.sig") = SigOver(CheckedAssoc.secret, Arg("openid.identity"),
                                    GoodReturn, Arg("openid.signed"))

\* C16: the verdict of check_authentication depends only on the internal
\* association, the request's signed list, its sig and the values of the
\* fields signed names: any other request that agrees with the one answered
\* on assoc_handle, signed, sig and every field named in signed gets the same
\* is_valid verdict from the same stores, whatever its other fields; and a
\* request whose signed list was narrowed, with a sig matching that list, is
\* answered is_valid=true.
C16_VerdictDependsOnSigned ==
    /\ CompleteCheck =>
          \A b \in Variants(last.args) :
              /\ Agree(last.args, b)
              /\ Verdict(processPost(b, last.istore, last.estore, AnyKey).ret)
                    = Verdict(last.ret)
    /\ NarrowedCheck => IsValid(last.ret, "true")

\* a narrowed request was answered is_valid=true, and a request with another
\* return_to and the same signed fields exists
C16_Witness ==
    /\ NarrowedCheck
    /\ IsValid(last.ret, "true")
    /\ \E b \in Variants(last.args) :
          /\ Agree(last.args, b)
          /\ ~SameAt(last.args, b, "openid.return_to")
          /\ ~SameAt(last.args, b, "openid.invalidate_handle")

\* an authorized, validated request without assoc_handle: dumb mode
DumbGet == SignedGet /\ ~HandleGiven(last.args)

\* the check_authentication request a consumer makes of a reply q, its
\* assoc_handle, signed, sig, identity and return_to unchanged
CheckRequestOf(q) ==
    CheckFields(q["openid.assoc_handle"], q["openid.signed"], q["openid.identity"],
                q["openid.return_to"], q["openid.sig"])

\* the request answered repeats a reply processGet signs in dumb mode with
\* the association a
RepeatsDumbReply(a) ==
    \E q \in GenuineReplies(a) :
        \A k \in DOMAIN CheckRequestOf(q) :
            Has(last.args, k) /\ Arg(k) = CheckRequestOf(q)[k]

\* C17: the reply to an authorized request without assoc_handle verifies:
\* the first check_authentication that repeats its assoc_handle, signed, sig,
\* identity and return_to while the fresh internal association has not
\* expired is answered OK with is_valid=true, be it sent at once or later.
C17_DumbRoundTrip ==
    /\ DumbGet =>
          \A x \in PrivateKeys :
              IsValid(processPost(CheckRequestOf(Reply), istore, estore, x).ret, "true")
    /\ (LiveCheck /\ RepeatsDumbReply(CheckedAssoc)) => IsValid(last.ret, "true")

\* a check_authentication that repeats a dumb-mode reply was answered true
C17_Witness ==
    /\ LiveCheck
    /\ RepeatsDumbReply(CheckedAssoc)
    /\ IsValid(last.ret, "true")

\* a url carries no assertion the provider made: its mode is not id_res and
\* a sig it shows is the one the request brought
NoAssertion(url) ==
    /\ ~(Has(url.query, "openid.mode") /\ url.query["openid.mode"] = <<"id_res">>)
    /\ Has(url.query, "openid.sig") =>
          Has(last.args, "openid.sig") /\ url.query["openid.sig"] = Arg("openid.sig")

\* a processGet call that failed validation or was not authorized
DeniedGet == Get /\ (FailedGet \/ ~last.authorized)

\* C18: processGet signs an id_res reply and touches the stores only for an
\* authorized request that passes the four checks: a call that fails a check
\* or is not authorized, whatever its mode, returns an outcome with no
\* mode=id_res and no signature of the provider's, and leaves both stores as
\* they were.
C18_OnlyAuthorizedSigns ==
    DeniedGet =>
        /\ last.ret.kind \in {"REDIRECT", "DO_AUTH", "ERROR"}
        /\ NoAssertion(last.ret.url)
        /\ NoAssertion(last.ret.cancel)
        /\ istore = last.istore
        /\ estore = last.estore

\* a request that is not authorized named an expired external association,
\* which an authorized one would have removed, and the store still holds it
C18_Witness ==
    /\ DeniedGet /\ Validated
    /\ Has(last.args, "openid.assoc_handle")
    /\ Arg("openid.assoc_handle") \in DOMAIN last.estore.assocs
    /\ last.estore.assocs[Arg("openid.assoc_handle")].expiresIn <= 0
    /\ Arg("openid.assoc_handle") \in DOMAIN estore.assocs
    /\ last.ret.kind = "DO_AUTH"

\* C19: check_authentication resolves and consumes handles in the internal
\* store alone: after every check_authentication call the external store is
\* as the call found it, also when it holds an association under the very
\* handle string being checked.
C19_ExternalUntouched ==
    CheckAuth => estore = last.estore

\* an associate request that ended in ERROR
FailedAssociate == AssociateCall /\ last.ret.kind = "ERROR"

\* C20 as stated: an associate request that ends in ERROR (unsupported
\* assoc_type, session_type other than DH-SHA1, or a missing dh_modulus,
\* dh_gen or dh_consumer_public) leaves the external store unchanged.
C20_FailedAssociateStoresNothing ==
    FailedAssociate => estore = last.estore

\* the external store holds what it held plus one live association
OneIssued ==
    \E h \in DOMAIN estore.assocs \ DOMAIN last.estore.assocs :
        /\ DOMAIN estore.assocs = DOMAIN last.estore.assocs \cup {h}
        /\ estore.assocs[h].expiresIn > 0
        /\ \A k \in DOMAIN last.estore.assocs : estore.assocs[k] = last.estore.assocs[k]

\* C20, amended: an associate request that ends in ERROR for an unsupported
\* assoc_type leaves the external store unchanged; one that ends in ERROR
\* for a session_type other than DH-SHA1 or for a missing dh_modulus, dh_gen
\* or dh_consumer_public has issued one association, which stays in the
\* external store, the store's other associations being unchanged; the
\* internal store is unchanged in every case.
C20_FailedAssociateStore ==
    FailedAssociate =>
        /\ istore = last.istore
        /\ IF SupportedType THEN OneIssued ELSE estore = last.estore

\* an associate request with another session_type ended in ERROR and its
\* association is in the external store
C20_Witness ==
    /\ FailedAssociate /\ SupportedType
    /\ Has(last.args, "openid.session_type")
    /\ Arg("openid.session_type") = <<"other">>
    /\ OneIssued

====
